---------------------------- MODULE Spec2Model ----------------------------
(***************************************************************************)
(* Model of the kite-feed pipeline (src/process_kite.py): the cluster      *)
(* normaliser (cluster_to_story, get_primary_source_url,                   *)
(* get_source_urls_from_cluster), the per-category selector and the global *)
(* filter (process_kite_feeds, apply_filters), and the merge engine        *)
(* (merge_duplicates).                                                     *)
(*                                                                         *)
(* Python values are represented as follows.                               *)
(*   str            a TLA+ string                                          *)
(*   None           the reserved string None (a str-or-None field)         *)
(*   missing key    the reserved string Absent (dict.get then gives the    *)
(*                  default)                                               *)
(*   int or None    a sequence of length <= 1: <<>> is None, <<n>> is n    *)
(*   dict or None   a sequence of length <= 1 holding the record           *)
(*   list           a sequence                                             *)
(*   set            a set; list(set) has no defined order, so a list that  *)
(*                  the code builds from a set is either kept as a set     *)
(*                  (source_urls) or is any ordering of it (list fields)   *)
(***************************************************************************)
EXTENDS Integers, Sequences, FiniteSets, TLC

None == "<None>"
Absent == "<absent>"

\* Python truthiness of a str-or-None value.
Truthy(v) == v # None /\ v # Absent /\ v # ""

\* dict.get(key, default) for a str-valued key.
Get(v, default) == IF v = Absent THEN default ELSE v

\* dict.get(key) without default.
GetOrNone(v) == IF v = Absent THEN None ELSE v

Range(s) == { s[i] : i \in 1..Len(s) }

\* A JSON value whose type the code does not check: its Python type and its
\* content, the characters of a str as one item, the elements of a list, the
\* keys of a dict.
Str(s) == [ kind |-> "str", items |-> IF s = "" THEN <<>> ELSE << s >> ]
List(items) == [ kind |-> "list", items |-> items ]
Dict(keys) == [ kind |-> "dict", items |-> keys ]

\* bool(v): an empty str, list or dict is false.
TruthyValue(v) == v.items # <<>>

(***************************************************************************)
(* URLs of the model.  LinkA2 is LinkA in another letter case and with     *)
(* surrounding blanks: str.lower().strip() maps both to LinkA.             *)
(***************************************************************************)
LinkA == "http://x.com/a"
LinkA2 == " HTTP://X.com/a "
LinkB == "http://x.com/b"
LinkC == "http://x.com/c"
QuoteUrl == "http://q.com/quote"
PerspUrl == "http://p.com/persp"
ImageUrl == "http://i.com/image.png"

\* str.lower()
Lower(u) ==
  CASE u = " HTTP://X.com/a " -> " http://x.com/a "
    [] OTHER -> u

\* str.strip()
Strip(u) ==
  CASE u = " http://x.com/a " -> "http://x.com/a"
    [] u = " HTTP://X.com/a " -> "HTTP://X.com/a"
    [] OTHER -> u

\* url.lower().strip()
Normalize(u) == Strip(Lower(u))

(***************************************************************************)
(* hashlib.md5(s).hexdigest(): a deterministic function of the cluster's   *)
(* content with a 32-hex-digit value.  The digest itself is not computed;  *)
(* a checksum of the content selects one of the digests of Digests.        *)
(***************************************************************************)
Digests ==
  << "0cc175b9c0f1b6a831c399e269772661",
     "92eb5ffee6ae2fec3ad71c777531578f",
     "4a8a08f09d37b73795649038408b5f33" >>

Checksum(cluster) ==
  Len(cluster.title) + Len(cluster._category) + Len(cluster.short_summary)
    + 3 * Len(cluster.articles) + 5 * Len(cluster.perspectives)
    + 7 * Len(cluster.talking_points) + 11 * Len(cluster.cluster_number)

Md5Hex(cluster) == Digests[(Checksum(cluster) % Len(Digests)) + 1]

HashPrefix == "hash:"

\* str.startswith("hash:") on the strings of the model: the only strings
\* with that prefix are the synthetic ids built from Digests.
StartsWithHash(u) == \E i \in 1..Len(Digests) : u = HashPrefix \o Digests[i]

(***************************************************************************)
(* get_primary_source_url                                                  *)
(***************************************************************************)

\* As get_primary_source_url, but the quote source comes before the articles.
get_primary_source_url_quote_first(cluster) ==
  IF Truthy(cluster.quote_source_url)
    THEN cluster.quote_source_url
  ELSE IF Len(cluster.articles) > 0 /\ Truthy(cluster.articles[1].link)
    THEN cluster.articles[1].link
  ELSE HashPrefix \o Md5Hex(cluster)

\* As get_primary_source_url, but the image link comes before the
\* perspective source.
get_primary_source_url_image_first(cluster) ==
  LET articles == cluster.articles
      perspectives == cluster.perspectives
      primary_image == cluster.primary_image
  IN  IF Len(articles) > 0 /\ Truthy(articles[1].link)
        THEN articles[1].link
      ELSE IF Truthy(cluster.quote_source_url)
        THEN cluster.quote_source_url
      ELSE IF Len(primary_image) > 0 /\ Truthy(primary_image[1].link)
        THEN primary_image[1].link
      ELSE IF /\ Len(perspectives) > 0
              /\ Len(perspectives[1].sources) > 0
              /\ Truthy(perspectives[1].sources[1].url)
        THEN perspectives[1].sources[1].url
      ELSE HashPrefix \o Md5Hex(cluster)

get_primary_source_url(cluster) ==
  LET articles == cluster.articles
      perspectives == cluster.perspectives
      primary_image == cluster.primary_image
  IN  IF Len(articles) > 0 /\ Truthy(articles[1].link)
        THEN articles[1].link
      ELSE IF Truthy(cluster.quote_source_url)
        THEN cluster.quote_source_url
      ELSE IF /\ Len(perspectives) > 0
              /\ Len(perspectives[1].sources) > 0
              /\ Truthy(perspectives[1].sources[1].url)
        THEN perspectives[1].sources[1].url
      ELSE IF Len(primary_image) > 0 /\ Truthy(primary_image[1].link)
        THEN primary_image[1].link
      ELSE HashPrefix \o Md5Hex(cluster)

(***************************************************************************)
(* get_source_urls_from_cluster: the set of all URLs of the cluster.       *)
(***************************************************************************)
get_source_urls_from_cluster(cluster) ==
  LET fromArticles ==
        { cluster.articles[i].link : i \in 1..Len(cluster.articles) }
      fromQuote == { cluster.quote_source_url }
      fromPerspectives ==
        UNION { { cluster.perspectives[i].sources[j].url :
                    j \in 1..Len(cluster.perspectives[i].sources) } :
                i \in 1..Len(cluster.perspectives) }
      fromImage ==
        { cluster.primary_image[i].link : i \in 1..Len(cluster.primary_image) }
  IN  { u \in fromArticles \cup fromQuote \cup fromPerspectives \cup fromImage :
          Truthy(u) }

(***************************************************************************)
(* cluster_to_story                                                        *)
(***************************************************************************)
published_of(cluster, file_timestamp) ==
  IF file_timestamp # None
    THEN file_timestamp
  ELSE IF cluster.timestamp # Absent
    THEN cluster.timestamp
  ELSE IF Len(cluster.articles) > 0 /\ Truthy(cluster.articles[1].date)
    THEN cluster.articles[1].date
  ELSE Absent

\* The representation of a category string that holds at most one name (see
\* the feed_category values below).
Parts(name) == IF name = "" THEN <<>> ELSE << name >>

cluster_to_story(cluster, file_timestamp, feed_category) ==
  [ title |-> Get(cluster.title, "Untitled"),
    summary |-> Get(cluster.short_summary, ""),
    feed_category |-> Parts(IF Truthy(feed_category)
                              THEN feed_category
                              ELSE Get(cluster._category, "")),
    item_category |-> Get(cluster.category, ""),
    category |-> Get(cluster._category, Get(cluster.category, "")),
    cluster_number |-> cluster.cluster_number,
    talking_points |-> cluster.talking_points,
    perspectives |-> cluster.perspectives,
    did_you_know |-> cluster.did_you_know,
    primary_image |-> cluster.primary_image,
    articles |-> cluster.articles,
    url |-> get_primary_source_url(cluster),
    source_urls |-> get_source_urls_from_cluster(cluster),
    published |-> published_of(cluster, file_timestamp) ]

(***************************************************************************)
(* A feed_category value is a comma-joined list of category names: it is   *)
(* represented by the sequence of its ", "-separated parts, so "" is <<>>, *)
(* "Tech" is <<"Tech">> and "Tech, World" is <<"Tech", "World">>.  No      *)
(* category name of the model contains ", " or is a prefix of another, so  *)
(* two values are equal as strings exactly when they are equal as          *)
(* sequences, and str's "<" is the lexicographic order of the sequences.   *)
(***************************************************************************)
CategoryNames == { "Science", "Tech", "World" }

\* Code-point order of the category names.
NameRank(n) ==
  CASE n = "Science" -> 1
    [] n = "Tech" -> 2
    [] n = "World" -> 3

RECURSIVE StrLess(_, _)
StrLess(a, b) ==
  IF a = <<>> THEN b # <<>>
  ELSE IF b = <<>> THEN FALSE
  ELSE IF Head(a) = Head(b) THEN StrLess(Tail(a), Tail(b))
  ELSE NameRank(Head(a)) < NameRank(Head(b))

\* ", ".join(sorted([a, b])) for two distinct strings a and b.
JoinSortedPair(a, b) == IF StrLess(a, b) THEN a \o b ELSE b \o a

(***************************************************************************)
(* merge_duplicates: the body of "for story in stories", split as the code *)
(* is: the candidate keys, the lookup, the merge into the existing story   *)
(* and the registration of a new story.                                    *)
(***************************************************************************)

\* Lines 202-213: the article links of the story, or its primary URL.
article_urls(story) ==
  LET links == [ i \in 1..Len(story.articles) |-> story.articles[i].link ]
      present == SelectSeq(links, LAMBDA l : Truthy(l))
  IN  IF present # <<>>
        THEN present
      ELSE IF Truthy(story.url) /\ ~StartsWithHash(story.url)
        THEN << story.url >>
      ELSE <<>>

\* As matching_url, but the loop does not stop at the first match and the
\* last matching key is kept.
matching_url_last(story, seen) ==
  LET urls == article_urls(story)
      hits == { i \in 1..Len(urls) : Normalize(urls[i]) \in DOMAIN seen }
  IN  IF hits = {}
        THEN None
        ELSE Normalize(urls[CHOOSE i \in hits : \A j \in hits : i >= j])

\* Lines 216-224: the normalised key of the first match, or None.
matching_url(story, seen) ==
  LET urls == article_urls(story)
      hits == { i \in 1..Len(urls) : Normalize(urls[i]) \in DOMAIN seen }
  IN  IF hits = {}
        THEN None
        ELSE Normalize(urls[CHOOSE i \in hits : \A j \in hits : i <= j])

\* Lines 230-237: append the articles whose link is not among the links the
\* existing story had before the loop.
merge_articles(existing_articles, new_articles) ==
  LET existing_article_links ==
        { existing_articles[i].link : i \in 1..Len(existing_articles) }
          \ { None, "" }
  IN  existing_articles
        \o SelectSeq(new_articles,
                     LAMBDA a : a.link \notin existing_article_links)

\* As merge_source_urls, but the URLs of the merged story replace the
\* existing ones.
merge_source_urls_replaced(existing_urls, new_urls) == new_urls

\* Lines 240-242.
merge_source_urls(existing_urls, new_urls) == existing_urls \cup new_urls

\* Lines 245-255.
merge_feed_category(existing_feed_cats, new_feed_cats) ==
  IF new_feed_cats # <<>> /\ new_feed_cats # existing_feed_cats
    THEN IF existing_feed_cats = <<>>
           THEN new_feed_cats
           ELSE JoinSortedPair(existing_feed_cats, new_feed_cats)
    ELSE existing_feed_cats

\* Lines 258-261.
merge_item_category(existing_item_cat, new_item_cat) ==
  IF Truthy(new_item_cat) /\ ~Truthy(existing_item_cat)
    THEN new_item_cat
    ELSE existing_item_cat

\* Lines 266-267 for a str-or-None field (a key the story lacks is Absent:
\* the loop does not visit it and the existing value stays).
merge_scalar(existing_value, new_value) ==
  IF Truthy(new_value) /\ ~Truthy(existing_value)
    THEN new_value
    ELSE existing_value

\* Truthiness of an int-or-None value: None and 0 are false.
TruthyNum(v) == v # <<>> /\ v # <<0>>

\* Lines 266-267 for an int-or-None field.
merge_number(existing_value, new_value) ==
  IF TruthyNum(new_value) /\ ~TruthyNum(existing_value)
    THEN new_value
    ELSE existing_value

\* Lines 266-267 for a dict-or-None field (the dicts of the model are not
\* empty, so a dict is true).
merge_record(existing_value, new_value) ==
  IF new_value # <<>> /\ existing_value = <<>>
    THEN new_value
    ELSE existing_value

\* As merge_unhashable_list, but the elements the existing list holds
\* already are not added again.
merge_unhashable_list_distinct(existing_list, new_list) ==
  IF new_list # <<>> /\ existing_list = <<>>
    THEN new_list
    ELSE existing_list
           \o SelectSeq(new_list, LAMBDA e : e \notin Range(existing_list))

\* Lines 266-277 for a list of dicts: set() raises TypeError and the two
\* lists are concatenated.
merge_unhashable_list(existing_list, new_list) ==
  IF new_list # <<>> /\ existing_list = <<>>
    THEN new_list
  ELSE IF new_list # <<>>
    THEN existing_list \o new_list
  ELSE existing_list

\* All orderings of a finite set, as sequences.
Orderings(S) ==
  { p \in [ 1..Cardinality(S) -> S ] :
      \A i, j \in 1..Cardinality(S) : i # j => p[i] # p[j] }

\* Lines 266-274 for a list of str: the outcomes of list(set(combined)),
\* whose order Python does not define.
merge_hashable_list(existing_list, new_list) ==
  IF new_list # <<>> /\ existing_list = <<>>
    THEN { new_list }
  ELSE IF new_list # <<>>
    THEN Orderings(Range(existing_list) \cup Range(new_list))
  ELSE { existing_list }

\* Lines 266-277 for a field of any type: "existing_list + story[key]"
\* (line 270) raises TypeError when the existing value is a non-empty str or
\* dict and the new value a non-empty list.
merge_value_raises(existing_value, new_value) ==
  /\ ~(TruthyValue(new_value) /\ ~TruthyValue(existing_value))
  /\ new_value.kind = "list"
  /\ new_value.items # <<>>
  /\ existing_value.kind # "list"

\* Lines 266-277 for a field of any type, when line 270 does not raise: the
\* outcomes of the merge (the items of the model are hashable).
merge_value(existing_value, new_value) ==
  IF TruthyValue(new_value) /\ ~TruthyValue(existing_value)
    THEN { new_value }
  ELSE IF new_value.kind = "list" /\ new_value.items # <<>>
    THEN { List(p) : p \in Orderings(Range(existing_value.items)
                                       \cup Range(new_value.items)) }
  ELSE { existing_value }

\* Lines 228-270: the existing story when line 270 raises for did_you_know.
\* The fields merged before the loop and the keys that come before
\* did_you_know in the story (lines 121-135) are merged already, the keys
\* after it (primary_image, published) are not.
merge_into_until_raise(existing, story, talking_points) ==
  [ existing EXCEPT
      !.articles = merge_articles(existing.articles, story.articles),
      !.source_urls = merge_source_urls(existing.source_urls, story.source_urls),
      !.feed_category =
          merge_feed_category(existing.feed_category, story.feed_category),
      !.item_category =
          merge_item_category(existing.item_category, story.item_category),
      !.title = merge_scalar(existing.title, story.title),
      !.summary = merge_scalar(existing.summary, story.summary),
      !.category = merge_scalar(existing.category, story.category),
      !.cluster_number =
          merge_number(existing.cluster_number, story.cluster_number),
      !.perspectives =
          merge_unhashable_list(existing.perspectives, story.perspectives),
      !.talking_points = talking_points ]

\* As merge_into, but the merged story takes the place of the existing one.
merge_into_replaced(existing, story, talking_points, did_you_know) == story

\* As merge_into, but the url of the merged story takes the place of the
\* existing one.
merge_into_url_taken(existing, story, talking_points, did_you_know) ==
  [ merge_into_until_raise(existing, story, talking_points) EXCEPT
      !.url = story.url,
      !.published = merge_scalar(existing.published, story.published),
      !.primary_image =
          merge_record(existing.primary_image, story.primary_image),
      !.did_you_know = did_you_know ]

\* Lines 228-277: the existing story after the story was merged into it;
\* talking_points is one outcome of merge_hashable_list, did_you_know one of
\* merge_value.
merge_into(existing, story, talking_points, did_you_know) ==
  [ existing EXCEPT
      !.articles = merge_articles(existing.articles, story.articles),
      !.source_urls = merge_source_urls(existing.source_urls, story.source_urls),
      !.feed_category =
          merge_feed_category(existing.feed_category, story.feed_category),
      !.item_category =
          merge_item_category(existing.item_category, story.item_category),
      !.title = merge_scalar(existing.title, story.title),
      !.summary = merge_scalar(existing.summary, story.summary),
      !.category = merge_scalar(existing.category, story.category),
      !.published = merge_scalar(existing.published, story.published),
      !.cluster_number =
          merge_number(existing.cluster_number, story.cluster_number),
      !.primary_image =
          merge_record(existing.primary_image, story.primary_image),
      !.perspectives =
          merge_unhashable_list(existing.perspectives, story.perspectives),
      !.talking_points = talking_points,
      !.did_you_know = did_you_know ]

\* Lines 281-284: the URL map after a new story, stored at merged[index],
\* registered its keys.
RECURSIVE register_keys(_, _, _)
register_keys(seen, urls, index) ==
  IF urls = <<>>
    THEN seen
    ELSE LET normalized_url == Normalize(Head(urls))
             next == IF Truthy(normalized_url) /\ ~StartsWithHash(normalized_url)
                       THEN [ k \in DOMAIN seen \cup { normalized_url } |->
                                IF k = normalized_url THEN index ELSE seen[k] ]
                       ELSE seen
         IN  register_keys(next, Tail(urls), index)

(***************************************************************************)
(* The clusters fed to the merge engine.  Each differs from BaseCluster in *)
(* the fields its comment names.                                           *)
(***************************************************************************)
Art(link) == [ link |-> link, date |-> "2024-01-01" ]

Perspective(url) == [ text |-> "view", sources |-> << [ url |-> url ] >> ]

BaseCluster ==
  [ title |-> "X",
    short_summary |-> "s1",
    cluster_number |-> << 1 >>,
    articles |-> << Art(LinkA) >>,
    quote_source_url |-> Absent,
    perspectives |-> <<>>,
    primary_image |-> <<>>,
    talking_points |-> <<>>,
    did_you_know |-> Str(""),
    timestamp |-> Absent,
    category |-> "",
    _category |-> "Tech" ]

WithArticles(articles) == [ BaseCluster EXCEPT !.articles = articles ]

\* Clusters that differ in their articles.
ArticleClusters ==
  { WithArticles(<< Art(LinkA) >>),
    WithArticles(<< Art(LinkB) >>),
    WithArticles(<< Art(LinkC) >>),
    WithArticles(<< Art(LinkA2) >>),
    WithArticles(<< Art(LinkA), Art(LinkB) >>),
    WithArticles(<< Art(LinkB), Art(LinkA) >>),
    WithArticles(<< Art(LinkB), Art(LinkC) >>),
    WithArticles(<< Art(LinkA), Art(LinkB), Art(LinkB) >>),
    \* no article: the key is the primary URL
    [ BaseCluster EXCEPT !.articles = <<>>, !.quote_source_url = LinkA ],
    \* an article without link: the key is the primary URL
    [ BaseCluster EXCEPT !.articles = << Art(None) >>,
                         !.quote_source_url = LinkA ],
    \* no URL at all: the primary URL is a hash
    [ BaseCluster EXCEPT !.articles = <<>> ],
    \* first article without link, no other URL of the cluster: the primary
    \* URL is a hash
    WithArticles(<< Art(None), Art(LinkA) >>) }

\* Clusters with the articles of BaseCluster that differ in other fields.
FieldClusters ==
  { [ BaseCluster EXCEPT !.short_summary = "" ],
    [ BaseCluster EXCEPT !.short_summary = "s2" ],
    [ BaseCluster EXCEPT !.talking_points = << "x" >> ],
    [ BaseCluster EXCEPT !.talking_points = << "y", "x" >> ],
    [ BaseCluster EXCEPT !.perspectives = << Perspective(PerspUrl) >> ],
    [ BaseCluster EXCEPT !.primary_image = << [ link |-> ImageUrl ] >>,
                         !.cluster_number = <<>> ],
    [ BaseCluster EXCEPT !.category = "Gadgets", !.cluster_number = << 0 >> ],
    \* did_you_know is documented as a str; the documents are not validated
    [ BaseCluster EXCEPT !.did_you_know = Str("fact") ],
    [ BaseCluster EXCEPT !.did_you_know = List(<< "fact" >>) ],
    [ BaseCluster EXCEPT !.did_you_know = Dict(<< "text" >>) ] }

\* The category documents the clusters come from: extract_clusters_from_category
\* (line 53) tags the cluster, line 339 passes the configured name.
FeedStory(cluster, category_name) ==
  cluster_to_story([ cluster EXCEPT !._category = category_name ],
                   None, category_name)

InputStories ==
  { FeedStory(c, "Tech") : c \in ArticleClusters \cup FieldClusters }
    \cup { FeedStory(WithArticles(a), n) :
             a \in { << Art(LinkA) >>, << Art(LinkB) >> },
             n \in { "World", "Science" } }

\* The number of stories of the input list.
MaxStories == 3

(***************************************************************************)
(* get_story_slug (generate_utils.py).  A title is a string; the function  *)
(* works on its characters, which Chars gives for the titles of the model. *)
(***************************************************************************)
\* A title of 52 characters.
LongTitle == "aaaaaaaaaaaaaaaaaaaaaaaaaaaaaaaaaaaaaaaaaaaaaaaaaaaa"

Chars(title) ==
  CASE title = "X" -> << "X" >>
    [] title = "five" -> << "f", "i", "v", "e" >>
    [] title = "Five!" -> << "F", "i", "v", "e", "!" >>
    [] title = "one" -> << "o", "n", "e" >>
    [] title = "three" -> << "t", "h", "r", "e", "e" >>
    [] title = "hundred" -> << "h", "u", "n", "d", "r", "e", "d" >>
    [] title = "untitled" -> << "u", "n", "t", "i", "t", "l", "e", "d" >>
    [] title = "unnumbered" ->
         << "u", "n", "n", "u", "m", "b", "e", "r", "e", "d" >>
    [] title = "Untitled" -> << "U", "n", "t", "i", "t", "l", "e", "d" >>
    [] title = "five a776d4b3" ->
         << "f", "i", "v", "e", " ", "a", "7", "7", "6", "d", "4", "b", "3" >>
    [] title = "five  one" ->
         << "f", "i", "v", "e", " ", " ", "o", "n", "e" >>
    [] title = LongTitle -> [ i \in 1..Len(LongTitle) |-> "a" ]
    [] OTHER -> <<>>

UpperLetters ==
  << "A", "B", "C", "D", "E", "F", "G", "H", "I", "J", "K", "L", "M",
     "N", "O", "P", "Q", "R", "S", "T", "U", "V", "W", "X", "Y", "Z" >>

LowerLetters ==
  << "a", "b", "c", "d", "e", "f", "g", "h", "i", "j", "k", "l", "m",
     "n", "o", "p", "q", "r", "s", "t", "u", "v", "w", "x", "y", "z" >>

Digits == { "0", "1", "2", "3", "4", "5", "6", "7", "8", "9" }

\* str.lower() on one character.
LowerChar(c) ==
  IF \E i \in 1..26 : UpperLetters[i] = c
    THEN LowerLetters[CHOOSE i \in 1..26 : UpperLetters[i] = c]
    ELSE c

\* s.strip(chars), chars a set of characters.
RECURSIVE StripChars(_, _)
StripChars(s, chars) ==
  IF s = <<>> THEN s
  ELSE IF Head(s) \in chars THEN StripChars(Tail(s), chars)
  ELSE IF s[Len(s)] \in chars THEN StripChars(SubSeq(s, 1, Len(s) - 1), chars)
  ELSE s

\* s.rstrip(chars).
RECURSIVE RStripChars(_, _)
RStripChars(s, chars) ==
  IF s # <<>> /\ s[Len(s)] \in chars
    THEN RStripChars(SubSeq(s, 1, Len(s) - 1), chars)
    ELSE s

\* re.sub(r"[-\s]+", "-", s) (line 69): every run of hyphens and white space
\* becomes one hyphen.
RECURSIVE CollapseRuns(_)
CollapseRuns(s) ==
  IF s = <<>> THEN s
  ELSE IF Head(s) \in { "-", " " }
    THEN IF Len(s) > 1 /\ s[2] \in { "-", " " }
           THEN CollapseRuns(Tail(s))
           ELSE << "-" >> \o CollapseRuns(Tail(s))
  ELSE << Head(s) >> \o CollapseRuns(Tail(s))

\* "".join(s).
RECURSIVE Join(_)
Join(s) == IF s = <<>> THEN "" ELSE Head(s) \o Join(Tail(s))

\* The length slugs are cut to (line 78).
MaxSlugLength == 50

\* Lines 61-86, the slug as its characters.  quote(slug, safe="-") leaves the characters a-z, 0-9, "-"
\* and "_", the only ones left at line 86, as they are.
story_slug_chars(story) ==
  LET title == IF Truthy(story.title) THEN story.title ELSE "Untitled"
      lowered == [ i \in 1..Len(Chars(title)) |-> LowerChar(Chars(title)[i]) ]
      collapsed == CollapseRuns(StripChars(lowered, { " " }))
      kept == SelectSeq(collapsed,
                        LAMBDA c : c \in Range(LowerLetters) \cup Digits
                                           \cup { "-", "_" })
      stripped == StripChars(kept, { "-", " ", "_" })
      cut == IF Len(stripped) > MaxSlugLength
               THEN RStripChars(SubSeq(stripped, 1, MaxSlugLength),
                                { "-", " ", "_" })
               ELSE stripped
  IN  IF cut = <<>> THEN Chars("untitled") ELSE cut

get_story_slug(story) == Join(story_slug_chars(story))

VARIABLES
  \* merge_duplicates
  stories,           \* the stories read so far, as they were given
  merged,            \* the output list, its stories as they are now
  seen_urls,         \* normalised URL -> index in merged of its story
  origin,            \* origin[i]: index in merged of the story stories[i] went into
  \* process_kite_feeds
  config,            \* the configuration
  pc,                \* the position in process_kite_feeds
  kite_data,         \* the category index as fetched
  position,          \* the index in config.categories of the next category
  category_name,     \* the category of the last iteration, None before it
  category_file,     \* its file in the index, None if it is not listed
  category_data,     \* the category document fetched last
  category_stories,  \* the stories of that category after the selection
  all_stories,       \* the stories of the categories processed so far
  filtered_stories,  \* the result of apply_filters
  exception,         \* the exception that ended the run, or None
  requests,          \* the documents requested with fetch_json, in order
  \* cluster_to_story
  arg_cluster,       \* the cluster given
  arg_timestamp,     \* the file_timestamp given
  ret_story,         \* <<>> before the call, then the story returned
  \* main of process_workflow.py
  step,              \* the position in main
  exit_status,       \* <<>> while main runs, then the exit status
  files,             \* the files of the output directory: name -> stories
                     \* the content was made from
  failed_writes,     \* the files whose "Write failed" was logged
  page_index,        \* the index of the next story page in step 3
  generated_count,   \* generated_count of step 3
  \* process_stories_for_output and the story loop of generate_index_html
  out_stories,       \* the story list given
  seen_slugs,        \* the keys of seen_slugs
  story_html_urls,   \* story_html_urls of process_stories_for_output
  index_urls,        \* the story_url of each story_list entry of the index
  \* the article loop of merge_duplicates (lines 230-237)
  article_lists,     \* the list objects: reference -> articles
  story_articles,    \* the reference of the list story["articles"] names;
                     \* existing["articles"] names the list 1
  seen_links,        \* existing_article_links
  article_position   \* << 0 >> before line 233, then << the index of the
                     \* next element of the iteration >>, <<>> after line 237

mergeVars == << stories, merged, seen_urls, origin >>
feedVars == << config, pc, kite_data, position, category_name, category_file,
               category_data, category_stories, all_stories, filtered_stories,
               exception, requests >>
clusterVars == << arg_cluster, arg_timestamp, ret_story >>
workflowVars == << step, exit_status, files, failed_writes, page_index,
                  generated_count >>
outputVars == << out_stories, seen_slugs, story_html_urls, index_urls >>
articleVars == << article_lists, story_articles, seen_links, article_position >>
vars == << mergeVars, feedVars, clusterVars, workflowVars, outputVars,
          articleVars >>

\* main before step 1, in an empty output directory.
WorkflowInit ==
  /\ step = "feeds"
  /\ exit_status = <<>>
  /\ files = << >>
  /\ failed_writes = {}
  /\ page_index = 1
  /\ generated_count = 0

\* No story list is given to the output functions.
OutputIdle ==
  /\ out_stories = <<>>
  /\ seen_slugs = {}
  /\ story_html_urls = <<>>
  /\ index_urls = <<>>

\* No duplicate is being merged.
ArticlesIdle ==
  /\ article_lists = << <<>> >>
  /\ story_articles = 1
  /\ seen_links = {}
  /\ article_position = <<>>

MergeInit ==
  /\ stories = <<>>
  /\ merged = <<>>
  /\ seen_urls = << >>
  /\ origin = <<>>

\* One iteration of "for story in stories" (lines 200-284) on the next story
\* of the input list.  A TypeError at line 270 leaves the loop and the
\* function; the existing story, changed in place, stays as it was then.
MergeStory(next_story) ==
  /\ exception = None
  /\ stories' = Append(stories, next_story)
  /\ LET match == matching_url(next_story, seen_urls)
     IN  IF match # None
           THEN LET index == seen_urls[match]
                    existing == merged[index]
                IN  /\ \E talking_points \in
                           merge_hashable_list(existing.talking_points,
                                               next_story.talking_points) :
                         IF merge_value_raises(existing.did_you_know,
                                               next_story.did_you_know)
                           THEN /\ merged' = [ merged EXCEPT ![index] =
                                      merge_into_until_raise(existing, next_story,
                                                             talking_points) ]
                                /\ exception' = "TypeError: merge_duplicates"
                           ELSE /\ \E did_you_know \in
                                       merge_value(existing.did_you_know,
                                                   next_story.did_you_know) :
                                     merged' = [ merged EXCEPT ![index] =
                                       merge_into(existing, next_story,
                                                  talking_points, did_you_know) ]
                                /\ exception' = exception
                    /\ seen_urls' = seen_urls
                    /\ origin' = Append(origin, index)
           ELSE /\ merged' = Append(merged, next_story)
                /\ seen_urls' = register_keys(seen_urls, article_urls(next_story),
                                              Len(merged) + 1)
                /\ origin' = Append(origin, Len(merged) + 1)
                /\ exception' = exception

(***************************************************************************)
(* apply_filters and the per-category selection of process_kite_feeds.     *)
(***************************************************************************)

\* story.get("cluster_number", 999): cluster_to_story always sets the key
\* (line 127), to None for a cluster without cluster_number, so the default
\* is never used and the value is the story's own.
rank_key(s) == s.cluster_number

\* list.sort compares the keys with "<"; a comparison with None raises
\* TypeError, and with two or more elements every element is compared.
sort_raises(list) ==
  Len(list) >= 2 /\ \E i \in 1..Len(list) : rank_key(list[i]) = <<>>

\* list.sort(key=...) is stable: an element goes after the elements whose
\* key is not greater.
RECURSIVE insert_sorted(_, _)
insert_sorted(sorted, s) ==
  IF sorted = <<>>
    THEN << s >>
  ELSE IF rank_key(sorted[Len(sorted)])[1] <= rank_key(s)[1]
    THEN Append(sorted, s)
  ELSE Append(insert_sorted(SubSeq(sorted, 1, Len(sorted) - 1), s),
              sorted[Len(sorted)])

RECURSIVE sort_by_cluster_number(_)
sort_by_cluster_number(list) ==
  IF Len(list) <= 1
    THEN list
    ELSE insert_sorted(sort_by_cluster_number(SubSeq(list, 1, Len(list) - 1)),
                       list[Len(list)])

\* As category_top_n, but the entry of the category is ignored.
category_top_n_default_only(cfg, name) == cfg.top_n

\* Line 342.
category_top_n(cfg, name) ==
  IF name \in DOMAIN cfg.top_n_by_category
    THEN cfg.top_n_by_category[name]
    ELSE cfg.top_n

\* list[:n] for n > 0.
Truncate(list, n) == SubSeq(list, 1, IF n < Len(list) THEN n ELSE Len(list))

\* Lines 345-347, when the sort does not raise.
select_top_n(list, top_n) ==
  IF top_n > 0
    THEN Truncate(sort_by_cluster_number(list), top_n)
    ELSE list

\* Lines 182-184: "score < 100" raises TypeError for None.
filter_raises(list) == \E i \in 1..Len(list) : list[i].cluster_number = <<>>

\* Lines 182-184.
score_of(s) ==
  IF s.cluster_number[1] < 100 THEN 100 - s.cluster_number[1] ELSE 0

\* Lines 173-192, when no score raises.
apply_filters(list, cfg) ==
  IF ~cfg.filters_enabled
    THEN list
    ELSE SelectSeq(list, LAMBDA s : score_of(s) >= cfg.min_score
                                      \/ cfg.min_score = 0)

(***************************************************************************)
(* The inputs of process_kite_feeds: the configuration and the documents   *)
(* the fetches return.                                                     *)
(***************************************************************************)
Configs ==
  { [ categories |-> << "Tech", "World" >>,
      top_n |-> n[1],
      top_n_by_category |-> n[2],
      filters_enabled |-> f[1],
      min_score |-> f[2] ] :
      n \in { << 2, << >> >>,
              << 0, << >> >>,
              << 5, [ c \in { "Tech" } |-> 1 ] >>,
              << 1, [ c \in { "Tech" } |-> 0 - 1 ] >> },
      f \in { << TRUE, 0 >>, << TRUE, 97 >>, << FALSE, 97 >> } }

\* The defaults of lines 173, 177 and 294-296.
DefaultConfig ==
  [ categories |-> <<>>,
    top_n |-> 5,
    top_n_by_category |-> << >>,
    filters_enabled |-> TRUE,
    min_score |-> 0 ]

FeedCluster(title, number, link) ==
  [ BaseCluster EXCEPT !.title = title,
                       !.cluster_number = number,
                       !.articles = << Art(link) >> ]

FeedClusters ==
  { FeedCluster("five", << 5 >>, LinkA),
    FeedCluster("one", << 1 >>, LinkB),
    FeedCluster("three", << 3 >>, LinkC),
    FeedCluster("hundred", << 100 >>, LinkB),
    FeedCluster("unnumbered", <<>>, LinkA),
    FeedCluster("Five!", << 2 >>, LinkC) }

\* The number of clusters of a category document.
MaxClusters == 3

SeqsUpTo(S, n) == UNION { [ 1..k -> S ] : k \in 0..n }

\* The cluster lists a category document may hold: any list for the first
\* category, at most one cluster for the others.
ClusterLists(name) ==
  IF name = "Tech"
    THEN SeqsUpTo(FeedClusters, MaxClusters)
    ELSE SeqsUpTo(FeedClusters, 1)

\* The category indexes fetch_json may return: {} when the fetch failed, or
\* a document and the names of the categories it lists.
KiteIndexes ==
  { [ fetched |-> FALSE, categories |-> {} ],
    [ fetched |-> TRUE, categories |-> {} ],
    [ fetched |-> TRUE, categories |-> { "Tech" } ],
    [ fetched |-> TRUE, categories |-> { "Tech", "World" } ] }

\* fetch_json returns {} when the fetch fails (line 28).
NoData == [ fetched |-> FALSE, clusters |-> <<>> ]

\* The file of a category in the index.
FileOf(name) ==
  CASE name = "Tech" -> "tech.json"
    [] name = "World" -> "world.json"
    [] OTHER -> "science.json"

FeedInit ==
  /\ config \in Configs
  /\ pc = "start"
  /\ kite_data = [ fetched |-> FALSE, categories |-> {} ]
  /\ position = 1
  /\ category_name = None
  /\ category_file = None
  /\ category_data = NoData
  /\ category_stories = <<>>
  /\ all_stories = <<>>
  /\ filtered_stories = <<>>
  /\ exception = None
  /\ requests = <<>>

\* Lines 299-305: the index is fetched; an empty result ends the run with [].
FetchIndex ==
  /\ pc = "start"
  /\ \E index \in KiteIndexes :
       /\ kite_data' = index
       /\ pc' = IF index.fetched THEN "categories" ELSE "done"
  /\ requests' = Append(requests, "kite.json")
  /\ UNCHANGED << config, position, category_name, category_file,
                  category_data, category_stories, all_stories,
                  filtered_stories, exception, mergeVars,
                  clusterVars, workflowVars, outputVars,
                 articleVars >>

\* Lines 311-320: the category is not in the index and is skipped.
CategoryNotFound ==
  /\ pc = "categories"
  /\ position <= Len(config.categories)
  /\ config.categories[position] \notin kite_data.categories
  /\ category_name' = config.categories[position]
  /\ category_file' = None
  /\ position' = position + 1
  /\ UNCHANGED << config, requests,
                  pc, kite_data, category_data, category_stories,
                  all_stories, filtered_stories, exception, mergeVars,
                  clusterVars, workflowVars, outputVars,
                 articleVars >>

\* As CategoryFetchFailed, but the failed fetch ends the run with [] as the
\* failed fetch of the index does.
CategoryFetchFailedReturns ==
  /\ pc = "categories"
  /\ position <= Len(config.categories)
  /\ config.categories[position] \in kite_data.categories
  /\ category_name' = config.categories[position]
  /\ category_file' = FileOf(config.categories[position])
  /\ category_data' = NoData
  /\ position' = position + 1
  /\ all_stories' = <<>>
  /\ pc' = "done"
  /\ requests' = Append(requests, FileOf(config.categories[position]))
  /\ UNCHANGED << config, kite_data, category_stories, filtered_stories,
                  exception, mergeVars, clusterVars, workflowVars, outputVars,
                 articleVars >>

\* As CategoryFetchFailed, but the loop stays at the category and its
\* document is requested again.
CategoryFetchFailedRetried ==
  /\ pc = "categories"
  /\ position <= Len(config.categories)
  /\ config.categories[position] \in kite_data.categories
  /\ Len(requests) < 4
  /\ category_name' = config.categories[position]
  /\ category_file' = FileOf(config.categories[position])
  /\ category_data' = NoData
  /\ position' = position
  /\ requests' = Append(requests, FileOf(config.categories[position]))
  /\ UNCHANGED << config, pc, kite_data, category_stories, all_stories,
                  filtered_stories, exception, mergeVars,
                  clusterVars, workflowVars, outputVars,
                 articleVars >>

\* Lines 322-329: the fetch of the category document fails and the category
\* is skipped.
CategoryFetchFailed ==
  /\ pc = "categories"
  /\ position <= Len(config.categories)
  /\ config.categories[position] \in kite_data.categories
  /\ category_name' = config.categories[position]
  /\ category_file' = FileOf(config.categories[position])
  /\ category_data' = NoData
  /\ position' = position + 1
  /\ requests' = Append(requests, FileOf(config.categories[position]))
  /\ UNCHANGED << config, pc, kite_data, category_stories, all_stories,
                  filtered_stories, exception, mergeVars,
                  clusterVars, workflowVars, outputVars,
                 articleVars >>

\* Lines 331-350: the category document is fetched, its clusters become
\* stories, the top_n of them are selected and added to all_stories.
CategoryProcessed ==
  /\ pc = "categories"
  /\ position <= Len(config.categories)
  /\ config.categories[position] \in kite_data.categories
  /\ category_name' = config.categories[position]
  /\ category_file' = FileOf(config.categories[position])
  /\ \E fetched \in ClusterLists(config.categories[position]) :
       LET converted == [ i \in 1..Len(fetched) |->
                            FeedStory(fetched[i], category_name') ]
           top_n == category_top_n(config, category_name')
       IN  /\ category_data' = [ fetched |-> TRUE, clusters |-> fetched ]
           /\ IF top_n > 0 /\ sort_raises(converted)
                THEN /\ pc' = "raised"
                     /\ exception' = "TypeError: sort"
                     /\ UNCHANGED << position, category_stories, all_stories >>
                ELSE /\ category_stories' = select_top_n(converted, top_n)
                     /\ all_stories' = all_stories \o category_stories'
                     /\ position' = position + 1
                     /\ UNCHANGED << pc, exception >>
  /\ requests' = Append(requests, FileOf(config.categories[position]))
  /\ UNCHANGED << config, kite_data, filtered_stories, mergeVars,
                  clusterVars, workflowVars, outputVars,
                 articleVars >>

\* Line 353: apply_filters on the stories of all categories.
ApplyFilters ==
  /\ pc = "categories"
  /\ position > Len(config.categories)
  /\ IF config.filters_enabled /\ filter_raises(all_stories)
       THEN /\ pc' = "raised"
            /\ exception' = "TypeError: apply_filters"
            /\ UNCHANGED filtered_stories
       ELSE /\ filtered_stories' = apply_filters(all_stories, config)
            /\ pc' = "merge"
            /\ UNCHANGED exception
  /\ UNCHANGED << config, requests,
                  kite_data, position, category_name, category_file,
                  category_data, category_stories, all_stories, mergeVars,
                  clusterVars, workflowVars, outputVars,
                 articleVars >>

\* Line 357: one iteration of merge_duplicates(filtered_stories).
MergeFiltered ==
  /\ pc = "merge"
  /\ Len(stories) < Len(filtered_stories)
  /\ MergeStory(filtered_stories[Len(stories) + 1])
  /\ pc' = IF exception' # None THEN "raised" ELSE pc
  /\ UNCHANGED << config, requests,
                  kite_data, position, category_name, category_file,
                  category_data, category_stories, all_stories,
                  filtered_stories, clusterVars, workflowVars, outputVars,
                 articleVars >>

\* Lines 286 and 360: merge_duplicates returns and the run ends.
ReturnMerged ==
  /\ pc = "merge"
  /\ Len(stories) = Len(filtered_stories)
  /\ pc' = "done"
  /\ UNCHANGED << config, requests,
                  kite_data, position, category_name, category_file,
                  category_data, category_stories, all_stories,
                  filtered_stories, exception, mergeVars,
                  clusterVars, workflowVars, outputVars,
                 articleVars >>

ClusterIdle ==
  /\ arg_cluster = BaseCluster
  /\ arg_timestamp = None
  /\ ret_story = <<>>

FeedNext ==
  \/ FetchIndex
  \/ CategoryNotFound
  \/ CategoryFetchFailed
  \/ CategoryProcessed
  \/ ApplyFilters
  \/ MergeFiltered
  \/ ReturnMerged

\* A run of process_kite_feeds.
FeedsStart ==
  FeedInit /\ MergeInit /\ ClusterIdle /\ WorkflowInit /\ OutputIdle
    /\ ArticlesIdle

SpecFeeds == FeedsStart /\ [][FeedNext]_vars

\* merge_duplicates on any list of at most MaxStories stories.
FeedIdle ==
  /\ config = DefaultConfig
  /\ pc = "merge"
  /\ kite_data = [ fetched |-> TRUE, categories |-> { "Tech", "World" } ]
  /\ position = 3
  /\ category_name = None
  /\ category_file = None
  /\ category_data = NoData
  /\ category_stories = <<>>
  /\ all_stories = <<>>
  /\ filtered_stories = <<>>
  /\ exception = None
  /\ requests = <<>>

MergeNext ==
  /\ Len(stories) < MaxStories
  /\ \E next_story \in InputStories : MergeStory(next_story)
  /\ UNCHANGED << config, requests,
                  pc, kite_data, position, category_name,
                  category_file, category_data, category_stories, all_stories,
                  filtered_stories, clusterVars, workflowVars, outputVars,
                 articleVars >>

MergeStart ==
  MergeInit /\ FeedIdle /\ ClusterIdle /\ WorkflowInit /\ OutputIdle
    /\ ArticlesIdle

SpecMerge == MergeStart /\ [][MergeNext]_vars

(***************************************************************************)
(* cluster_to_story on any cluster: the clusters given are all             *)
(* combinations of the values below.                                       *)
(***************************************************************************)

\* The number of articles of a cluster given to cluster_to_story.
MaxArticles == 2

ArticleRecords ==
  { [ link |-> l, date |-> d ] :
      l \in { LinkA, LinkB, None, "" }, d \in { "2024-01-01", None } }

PerspectiveLists ==
  { <<>>,
    << [ text |-> "view", sources |-> <<>> ] >>,
    << Perspective(PerspUrl) >>,
    << Perspective(None) >>,
    << [ text |-> "view", sources |-> <<>> ], Perspective(PerspUrl) >> }

Clusters ==
  { [ BaseCluster EXCEPT !.articles = a,
                         !.quote_source_url = q,
                         !.perspectives = p,
                         !.primary_image = i,
                         !.timestamp = t ] :
      a \in SeqsUpTo(ArticleRecords, MaxArticles),
      q \in { Absent, "", QuoteUrl },
      p \in PerspectiveLists,
      i \in { <<>>, << [ link |-> None ] >>, << [ link |-> ImageUrl ] >> },
      t \in { Absent, None, "2024-05-01T10:00:00" } }

ClusterInit ==
  /\ arg_cluster \in Clusters
  /\ arg_timestamp \in { None, "2024-06-01T00:00:00" }
  /\ ret_story = <<>>

\* cluster_to_story(cluster, file_timestamp, feed_category) is called and
\* returns.
ClusterToStory ==
  /\ ret_story = <<>>
  /\ ret_story' = << cluster_to_story(arg_cluster, arg_timestamp, "Tech") >>
  /\ UNCHANGED << arg_cluster, arg_timestamp, mergeVars, feedVars,
                  workflowVars, outputVars,
                 articleVars >>

ClusterNext == ClusterToStory

ClusterStart ==
  ClusterInit /\ MergeInit /\ FeedIdle /\ WorkflowInit /\ OutputIdle
    /\ ArticlesIdle

SpecCluster == ClusterStart /\ [][ClusterNext]_vars

(***************************************************************************)
(* main of process_workflow.py: process_kite_feeds, then the writes of     *)
(* processed_stories.json, feed.xml, the story pages and index.html.       *)
(***************************************************************************)

\* log_file_write (lines 38-67): the file holds the content and the call
\* returns True, or the write fails, the failure is logged and the call
\* returns False.  A failed write leaves the directory as it was.
log_file_write(filepath, content, success) ==
  IF success
    THEN /\ files' = [ f \in DOMAIN files \cup { filepath } |->
                         IF f = filepath THEN content ELSE files[f] ]
         /\ failed_writes' = failed_writes
    ELSE /\ files' = files
         /\ failed_writes' = failed_writes \cup { filepath }

\* Lines 217-218.
StoryPage(story) == "stories/" \o get_story_slug(story) \o ".html"

\* Lines 147-148 and 197-198: the stories loaded from processed_stories.json.
LoadedStories == files["processed_stories.json"]

\* Lines 131-136: process_kite_feeds raised; main exits with status 1.
FeedsRaised ==
  /\ step = "feeds"
  /\ pc = "raised"
  /\ step' = "exited"
  /\ exit_status' = << 1 >>
  /\ UNCHANGED << files, failed_writes, page_index, generated_count,
                  mergeVars, feedVars, clusterVars, outputVars,
                 articleVars >>

\* Lines 102-119: process_kite_feeds returned its list, [] when the index
\* could not be fetched; the list is written to processed_stories.json.
SaveStories ==
  /\ step = "feeds"
  /\ pc = "done"
  /\ \E success \in BOOLEAN :
       /\ log_file_write("processed_stories.json", merged, success)
       /\ step' = IF success THEN "rss" ELSE "exited"
       /\ exit_status' = IF success THEN exit_status ELSE << 1 >>
  /\ UNCHANGED << page_index, generated_count, mergeVars, feedVars,
                  clusterVars, outputVars,
                 articleVars >>

\* As WriteFeed, but step 3 follows whether feed.xml was written or not.
WriteFeedUngated ==
  /\ step = "rss"
  /\ \E success \in BOOLEAN :
       log_file_write("feed.xml", LoadedStories, success)
  /\ step' = "pages"
  /\ UNCHANGED << exit_status, page_index, generated_count, mergeVars,
                  feedVars, clusterVars, outputVars,
                 articleVars >>

\* Lines 138-169: feed.xml is made from the stories loaded and written.
WriteFeed ==
  /\ step = "rss"
  /\ \E success \in BOOLEAN :
       /\ log_file_write("feed.xml", LoadedStories, success)
       /\ step' = IF success THEN "pages" ELSE "exited"
       /\ exit_status' = IF success THEN exit_status ELSE << 1 >>
  /\ UNCHANGED << page_index, generated_count, mergeVars, feedVars,
                  clusterVars, outputVars,
                 articleVars >>

\* Lines 216-231: one iteration of the loop over the stories; a page that
\* could not be written is logged and the loop goes on.
WriteStoryPage ==
  /\ step = "pages"
  /\ page_index <= Len(LoadedStories)
  /\ \E success \in BOOLEAN :
       /\ log_file_write(StoryPage(LoadedStories[page_index]),
                         << LoadedStories[page_index] >>, success)
       /\ generated_count' = IF success THEN generated_count + 1
                                        ELSE generated_count
  /\ page_index' = page_index + 1
  /\ UNCHANGED << step, exit_status, mergeVars, feedVars, clusterVars, outputVars,
                 articleVars >>

\* Lines 233-251: after the loop index.html is made and written.
WriteIndex ==
  /\ step = "pages"
  /\ page_index > Len(LoadedStories)
  /\ \E success \in BOOLEAN :
       /\ log_file_write("index.html", LoadedStories, success)
       /\ step' = IF success THEN "verify" ELSE "exited"
       /\ exit_status' = IF success THEN exit_status ELSE << 1 >>
  /\ UNCHANGED << page_index, generated_count, mergeVars, feedVars,
                  clusterVars, outputVars,
                 articleVars >>

\* Lines 285-311: the run ends with status 1 if a key file is missing (the
\* stories directory exists since line 205), else main returns and the
\* status is 0.
VerifyOutputs ==
  /\ step = "verify"
  /\ step' = "exited"
  /\ exit_status' =
       IF { "processed_stories.json", "feed.xml", "index.html" }
            \subseteq DOMAIN files
         THEN << 0 >>
         ELSE << 1 >>
  /\ UNCHANGED << files, failed_writes, page_index, generated_count,
                  mergeVars, feedVars, clusterVars, outputVars,
                 articleVars >>

WorkflowNext ==
  \/ FetchIndex
  \/ CategoryNotFound
  \/ CategoryFetchFailed
  \/ CategoryProcessed
  \/ ApplyFilters
  \/ MergeFiltered
  \/ ReturnMerged
  \/ FeedsRaised
  \/ SaveStories
  \/ WriteFeed
  \/ WriteStoryPage
  \/ WriteIndex
  \/ VerifyOutputs

\* A run of main.
WorkflowStart ==
  FeedInit /\ MergeInit /\ ClusterIdle /\ WorkflowInit /\ OutputIdle
    /\ ArticlesIdle

SpecWorkflow == WorkflowStart /\ [][WorkflowNext]_vars

\* ---------------------------------------------------------------------
\* generate_utils.py, process_stories_for_output (lines 233-298), and the
\* story loop of generate_index_html (generate_html.py, lines 370-374).

\* site.base_url.
BaseUrl == "https://example.com"

\* hashlib.md5(story_id.encode()).hexdigest()[:8] of the story identifiers
\* of the model.
Md5Prefix(story_id) ==
  CASE story_id = LinkA -> "8c1be163"
    [] story_id = LinkB -> "a776d4b3"
    [] story_id = LinkC -> "45a9175f"
    [] story_id = "five" -> "30056e1c"

\* The length of the hash suffix, of the longest suffixed slug, and of the
\* base slug kept in a longer one.
HashSuffixLength == 8
MaxSuffixedLength == 70
TruncatedBaseLength == 42

\* Lines 257-268: the slug of the story page, given the slugs seen so far.
\* Every story of the model has a url or a title, so str(id(story)) is
\* never the identifier.
unique_story_slug(story, seen) ==
  LET base_slug == story_slug_chars(story)
      story_id == IF Truthy(story.url) THEN story.url ELSE story.title
      hash_suffix == Md5Prefix(story_id)
  IN  IF Join(base_slug) \notin seen
        THEN Join(base_slug)
        ELSE IF Len(base_slug) + 1 + HashSuffixLength > MaxSuffixedLength
               THEN Join(SubSeq(base_slug, 1, TruncatedBaseLength))
                      \o "-" \o hash_suffix
               ELSE Join(base_slug) \o "-" \o hash_suffix

\* urllib.parse.quote(c, safe="") of one character of the model's titles.
QuoteChar(c) ==
  IF c \in Range(LowerLetters) \cup Range(UpperLetters) \cup Digits
            \cup { "_", ".", "-", "~" }
    THEN c
    ELSE CASE c = "!" -> "%21"
           [] c = " " -> "%20"

\* The number of characters of the title that generate_index_html keeps.
IndexSlugLength == 50

\* generate_html.py, line 373 (generate_rss.py, line 247, is the same
\* expression): quote(title.lower().replace(" ", "-")[:50], safe="").
index_story_slug(story) ==
  LET title == Chars(story.title)
      lowered == [ i \in 1..Len(title) |-> LowerChar(title[i]) ]
      replaced == [ i \in 1..Len(title) |->
                      IF lowered[i] = " " THEN "-" ELSE lowered[i] ]
      cut == IF Len(replaced) > IndexSlugLength
               THEN SubSeq(replaced, 1, IndexSlugLength)
               ELSE replaced
  IN  Join([ i \in 1..Len(cut) |-> QuoteChar(cut[i]) ])

OutputStory(title, url) ==
  [ FeedStory(FeedCluster(title, << 1 >>, url), "Tech") EXCEPT !.url = url ]

\* Stories with equal titles, a title that is another story's slug with its
\* suffix, punctuation, repeated spaces, more than 50 characters, no url.
OutputStories ==
  { OutputStory("five", LinkA),
    OutputStory("five", LinkB),
    OutputStory("five", ""),
    OutputStory("Five!", LinkC),
    OutputStory("five a776d4b3", LinkC),
    OutputStory("five  one", LinkA),
    OutputStory(LongTitle, LinkB) }

\* The number of stories given to the output functions.
MaxOutputStories == 3

OutputInit ==
  /\ out_stories \in SeqsUpTo(OutputStories, MaxOutputStories)
  /\ seen_slugs = {}
  /\ story_html_urls = <<>>
  /\ index_urls = <<>>

\* One iteration of "for story in stories" of process_stories_for_output
\* (lines 255-274).
ProcessStoryForOutput ==
  /\ Len(story_html_urls) < Len(out_stories)
  /\ LET next_story == out_stories[Len(story_html_urls) + 1]
         story_slug == unique_story_slug(next_story, seen_slugs)
     IN  /\ seen_slugs' = seen_slugs \cup { story_slug }
         /\ story_html_urls' =
              Append(story_html_urls,
                     BaseUrl \o "/stories/" \o story_slug \o ".html")
  /\ UNCHANGED << out_stories, index_urls, mergeVars, feedVars, clusterVars,
                  workflowVars, articleVars >>

\* One iteration of "for story in stories" of generate_index_html
\* (generate_html.py, lines 371-374).
IndexStoryLink ==
  /\ Len(index_urls) < Len(out_stories)
  /\ LET next_story == out_stories[Len(index_urls) + 1]
     IN  index_urls' =
           Append(index_urls,
                  BaseUrl \o "/stories/" \o index_story_slug(next_story)
                    \o ".html")
  /\ UNCHANGED << out_stories, seen_slugs, story_html_urls, mergeVars,
                  feedVars, clusterVars, workflowVars, articleVars >>

OutputNext ==
  \/ ProcessStoryForOutput
  \/ IndexStoryLink

OutputStart ==
  OutputInit /\ MergeInit /\ FeedIdle /\ ClusterIdle /\ WorkflowInit
    /\ ArticlesIdle

SpecOutput == OutputStart /\ [][OutputNext]_vars

\* ---------------------------------------------------------------------
\* process_kite.py, merge_duplicates, lines 230-237: the article loop of one
\* merge, statement by statement, with the lists as objects.  A story that
\* is merged into itself (the same record twice in the input) has one
\* articles list under both names.

\* The lists an articles field holds.
ArticleLists ==
  SeqsUpTo({ Art(l) : l \in { LinkA, LinkB, None, "" } }, MaxArticles)

\* The length up to which the model follows the existing list.
MaxListLength == 6

\* existing["articles"] is the list 1; story["articles"] is the list 1 as
\* well if the story is the existing record, and a list 2 if it is not.
ArticlesInit ==
  /\ article_lists \in [ 1..1 -> ArticleLists ] \cup [ 1..2 -> ArticleLists ]
  /\ story_articles = Len(article_lists)
  /\ seen_links = {}
  /\ article_position = << 0 >>

\* Line 233.
CollectLinks ==
  /\ article_position = << 0 >>
  /\ seen_links' = { article_lists[1][i].link :
                       i \in 1..Len(article_lists[1]) } \ { None, "" }
  /\ article_position' = << 1 >>
  /\ UNCHANGED << article_lists, story_articles, mergeVars, feedVars,
                  clusterVars, workflowVars, outputVars >>

\* Lines 234-236: one iteration of "for article in new_articles".
MergeArticle ==
  /\ article_position # <<>>
  /\ article_position[1] \in 1..Len(article_lists[story_articles])
  /\ Len(article_lists[1]) < MaxListLength
  /\ LET article == article_lists[story_articles][article_position[1]]
     IN  article_lists' =
           IF article.link \notin seen_links
             THEN [ article_lists EXCEPT ![1] = Append(@, article) ]
             ELSE article_lists
  /\ article_position' = << article_position[1] + 1 >>
  /\ UNCHANGED << story_articles, seen_links, mergeVars, feedVars,
                  clusterVars, workflowVars, outputVars >>

\* The iteration is exhausted; line 237.
ArticlesMerged ==
  /\ article_position # <<>>
  /\ article_position[1] > Len(article_lists[story_articles])
  /\ article_position' = <<>>
  /\ UNCHANGED << article_lists, story_articles, seen_links, mergeVars,
                  feedVars, clusterVars, workflowVars, outputVars >>

ArticlesNext ==
  \/ CollectLinks
  \/ MergeArticle
  \/ ArticlesMerged

ArticlesStart ==
  ArticlesInit /\ MergeInit /\ FeedIdle /\ ClusterIdle /\ WorkflowInit
    /\ OutputIdle

SpecArticles == ArticlesStart /\ [][ArticlesNext]_vars

(***************************************************************************)
(* Properties of the merge engine.                                         *)
(***************************************************************************)

\* The input stories that make up the output story merged[k].
Constituents(k) == { i \in 1..Len(stories) : origin[i] = k }

\* The links of a list of articles.
LinksOf(articles) ==
  { articles[i].link : i \in 1..Len(articles) } \ { None, "" }

\* The normalised, non-hash keys of a story.
KeysOf(story) ==
  { n \in { Normalize(u) : u \in Range(article_urls(story)) } :
      Truthy(n) /\ ~StartsWithHash(n) }

\* C1: after stories were merged into a canonical story, its articles hold
\* every link of the canonical story and of the stories merged into it, and
\* no two of its articles have the same link.
C1_ArticlesUnionWithoutDuplicates ==
  \A k \in 1..Len(merged) :
    Cardinality(Constituents(k)) >= 2 =>
      /\ \A i \in Constituents(k) :
           LinksOf(stories[i].articles) \subseteq LinksOf(merged[k].articles)
      /\ \A p, q \in 1..Len(merged[k].articles) :
           (p # q /\ Truthy(merged[k].articles[p].link))
             => merged[k].articles[p].link # merged[k].articles[q].link

\* C2: no two stories of the output hold an article with the same normalised
\* link.
C2_NoLinkInTwoOutputStories ==
  \A k1, k2 \in 1..Len(merged) :
    k1 # k2 =>
      { Normalize(u) : u \in LinksOf(merged[k1].articles) }
        \cap { Normalize(u) : u \in LinksOf(merged[k2].articles) } = {}

\* C3: every normalised non-hash key of a story read so far is in the URL
\* map, and a key that no earlier story had points at the output story the
\* story went into (itself if new, the canonical story if merged).
C3_KeysOfMergedStoryRegistered ==
  \A i \in 1..Len(stories) :
    \A n \in KeysOf(stories[i]) :
      /\ n \in DOMAIN seen_urls
      /\ (\A h \in 1..(i - 1) : n \notin KeysOf(stories[h]))
           => seen_urls[n] = origin[i]

\* The sequence of the names of S in code-point order.
RECURSIVE SortedNames(_)
SortedNames(S) ==
  IF S = {}
    THEN <<>>
    ELSE LET least == CHOOSE n \in S : \A m \in S : NameRank(n) <= NameRank(m)
         IN  << least >> \o SortedNames(S \ { least })

\* C4: the feed_category of a canonical story is the sorted, comma-joined
\* list of the distinct non-empty feed categories of its constituents, each
\* name once.
C4_FeedCategoryDistinctSorted ==
  \A k \in 1..Len(merged) :
    merged[k].feed_category =
      SortedNames(UNION { Range(stories[i].feed_category) :
                            i \in Constituents(k) })

\* C5: merging a story that has an article with a second story of identical
\* content gives one story equal to it in every field.
C5_MergeWithItselfIdempotent ==
  ( /\ Len(stories) = 2
    /\ stories[1] = stories[2]
    /\ stories[1].articles # <<>> )
    => merged = << stories[1] >>

\* C6: a story whose url starts with "hash:" is alone in its output story:
\* it is not merged into another story and no story is merged into it.
C6_HashStoryNeverMerged ==
  \A i \in 1..Len(stories) :
    StartsWithHash(stories[i].url) => Constituents(origin[i]) = { i }

\* C7: the source_urls of a canonical story contain the source_urls of the
\* original canonical story and of every story merged into it.
C7_SourceUrlsSuperset ==
  \A i \in 1..Len(stories) :
    stories[i].source_urls \subseteq merged[origin[i]].source_urls

\* Two stories with different source_urls were merged into a third one.
C7_Witness ==
  \E k \in 1..Len(merged) :
    /\ Cardinality(Constituents(k)) >= 3
    /\ \E i, j \in Constituents(k) :
         /\ ~(stories[i].source_urls \subseteq stories[j].source_urls)
         /\ ~(stories[j].source_urls \subseteq stories[i].source_urls)

(***************************************************************************)
(* Properties of the normaliser.                                           *)
(***************************************************************************)

\* C8 as amended: get_primary_source_url returns a non-empty string for
\* every cluster, and the first article's link whenever the first article has
\* a non-empty link.
C8_PrimaryUrlTotalFirstLink ==
  ret_story # <<>> =>
    /\ Truthy(ret_story[1].url)
    /\ Len(ret_story[1].url) > 0
    /\ (Len(arg_cluster.articles) > 0 /\ Truthy(arg_cluster.articles[1].link))
         => ret_story[1].url = arg_cluster.articles[1].link

\* C8 as stated: the value returned is the first article's link whenever the
\* cluster has an article.
C8_PrimaryUrlIsFirstArticleLink ==
  ret_story # <<>> =>
    /\ Truthy(ret_story[1].url)
    /\ Len(arg_cluster.articles) > 0
         => ret_story[1].url = arg_cluster.articles[1].link

\* The first article's link was returned for a cluster that has other URLs.
C8_Witness ==
  /\ ret_story # <<>>
  /\ Len(arg_cluster.articles) = 2
  /\ Truthy(arg_cluster.articles[1].link)
  /\ Truthy(arg_cluster.articles[2].link)
  /\ arg_cluster.articles[2].link # arg_cluster.articles[1].link
  /\ Truthy(arg_cluster.quote_source_url)
  /\ ret_story[1].url = arg_cluster.articles[1].link

(***************************************************************************)
(* Properties of the selection and of the filter.                          *)
(***************************************************************************)

\* The last iteration of the category loop fetched a document and went on to
\* the selection.
SelectionRan ==
  /\ category_name # None
  /\ category_file # None
  /\ category_data.fetched

\* The rank a story is selected by: its cluster_number, 999 if it has none.
RankOrDefault(s) ==
  IF s.cluster_number = <<>> THEN 999 ELSE s.cluster_number[1]

\* The stories of the category document fetched last.
Converted ==
  [ i \in 1..Len(category_data.clusters) |->
      FeedStory(category_data.clusters[i], category_name) ]

\* selected holds the count stories of list with the smallest rank, in
\* ascending order of rank.
IsSmallestAscending(selected, list, count) ==
  /\ Len(selected) = count
  /\ \A i \in 1..(Len(selected) - 1) :
       RankOrDefault(selected[i]) <= RankOrDefault(selected[i + 1])
  /\ \E f \in [ 1..Len(selected) -> 1..Len(list) ] :
       /\ \A i, j \in 1..Len(selected) : i # j => f[i] # f[j]
       /\ \A i \in 1..Len(selected) : selected[i] = list[f[i]]
       /\ \A j \in 1..Len(list) :
            (\A i \in 1..Len(selected) : f[i] # j) =>
              \A i \in 1..Len(selected) :
                RankOrDefault(selected[i]) <= RankOrDefault(list[j])

\* C9: for a category with top_n > 0 the selection completes and yields the
\* min(top_n, n) stories with the smallest cluster_number in ascending
\* order, a story without cluster_number ranked as 999.
C9_SelectionSmallestAscending ==
  (SelectionRan /\ category_top_n(config, category_name) > 0) =>
    /\ exception # "TypeError: sort"
    /\ LET top_n == category_top_n(config, category_name)
           n == Len(Converted)
       IN  IsSmallestAscending(category_stories, Converted,
                               IF top_n < n THEN top_n ELSE n)

\* apply_filters was called.
FilterCalled ==
  \/ pc \in { "merge", "done" } /\ kite_data.fetched
  \/ exception = "TypeError: apply_filters"

\* The score of a story: 100 - cluster_number below 100, else 0.
Score(s) == IF RankOrDefault(s) < 100 THEN 100 - RankOrDefault(s) ELSE 0

\* C10: apply_filters returns the stories whose score is at least min_score,
\* in their order; all stories when min_score is 0 or the filter is disabled.
C10_FilterKeepsByScore ==
  FilterCalled =>
    /\ exception = None
    /\ filtered_stories =
         IF ~config.filters_enabled \/ config.min_score = 0
           THEN all_stories
           ELSE SelectSeq(all_stories, LAMBDA s : Score(s) >= config.min_score)

(***************************************************************************)
(* Properties of the handling of missing fields.                           *)
(***************************************************************************)

\* apply_filters was called with the filter enabled on a list that holds a
\* story made from a cluster without cluster_number.
FilterCalledOnUnnumbered ==
  /\ FilterCalled
  /\ config.filters_enabled
  /\ \E i \in 1..Len(all_stories) : all_stories[i].cluster_number = <<>>

\* C11: apply_filters (filtering enabled) on a story made by cluster_to_story
\* from a cluster without cluster_number completes without raising and
\* scores the story 0: the story is kept exactly when min_score is 0.
C11_UnnumberedStoryScoredZero ==
  FilterCalledOnUnnumbered =>
    /\ exception = None
    /\ \A i \in 1..Len(all_stories) :
         all_stories[i].cluster_number = <<>> =>
           ((\E j \in 1..Len(filtered_stories) :
                filtered_stories[j] = all_stories[i])
              <=> config.min_score <= 0)

\* C12: merge_duplicates has no failure path: whatever the stories of the
\* list hold, no iteration of the merge raises.
C12_MergeNeverRaises ==
  exception # "TypeError: merge_duplicates"

(***************************************************************************)
(* Properties of the workflow run.                                         *)
(***************************************************************************)

\* C13: a run in which the write of an output file (processed_stories.json,
\* feed.xml, index.html or a story page) failed never exits with status 0.
C13_NoSuccessAfterFailedWrite ==
  exit_status = << 0 >> => failed_writes = {}

\* C14: a run whose fetch of the category index failed never exits with
\* status 0.
C14_IndexFetchFailureExitsNonZero ==
  exit_status = << 0 >> => kite_data.fetched

\* C16: two distinct stories of the final list are never written to the same
\* story page file.
C16_StoryPagesDistinct ==
  step \in { "pages", "verify" } =>
    \A i, j \in 1..(page_index - 1) :
      LoadedStories[i] # LoadedStories[j] =>
        StoryPage(LoadedStories[i]) # StoryPage(LoadedStories[j])

(***************************************************************************)
(* Properties of the category loop.                                        *)
(***************************************************************************)

\* The step is an iteration of the category loop that skips its category:
\* the category is not in the index, or the fetch of its document failed.
CategorySkipped ==
  /\ pc = "categories"
  /\ position' = position + 1
  /\ category_file' = None \/ ~category_data'.fetched

\* C15: an iteration that skips its category adds no story, keeps the
\* stories of the categories before it and leaves the loop running, so that
\* the categories after it are still fetched; an iteration that processes
\* its category appends its selection; the list given to apply_filters is
\* the list the loop built.
C15_FailedCategorySkippedOthersKept ==
  [][ /\ CategorySkipped =>
           /\ all_stories' = all_stories
           /\ pc' = "categories"
           /\ exception' = None
      /\ (pc = "categories" /\ position' = position + 1 /\ ~CategorySkipped) =>
           all_stories' = all_stories \o category_stories'
      /\ (pc = "categories" /\ pc' = "merge") =>
           /\ position > Len(config.categories)
           /\ all_stories' = all_stories
           /\ config.filters_enabled \/ filtered_stories' = all_stories
    ]_vars

\* The fetch of the second category failed after the first gave two stories,
\* and apply_filters was called on them.
C15_Witness ==
  /\ pc = "merge"
  /\ category_name = "World"
  /\ category_file # None
  /\ ~category_data.fetched
  /\ Len(all_stories) = 2
  /\ exception = None

(***************************************************************************)
(* Properties of cluster_to_story.                                         *)
(***************************************************************************)

\* The published value in the order of section 4.1: the feed-level
\* timestamp, else the cluster's non-empty timestamp, else the first
\* article's date, else none.
PublishedInOrder(cluster, file_timestamp) ==
  IF file_timestamp # None
    THEN file_timestamp
  ELSE IF Truthy(cluster.timestamp)
    THEN cluster.timestamp
  ELSE IF Len(cluster.articles) > 0 /\ Truthy(cluster.articles[1].date)
    THEN cluster.articles[1].date
  ELSE Absent

\* C17: published is the feed-level timestamp when one is given, else the
\* cluster's timestamp, else the first article's date, else absent; a
\* cluster whose timestamp is present but null falls through to the first
\* article's date.
C17_PublishedResolutionOrder ==
  ret_story # <<>> =>
    ret_story[1].published = PublishedInOrder(arg_cluster, arg_timestamp)

\* The URLs get_primary_source_url chooses from, in the order of the claim;
\* None stands for one the cluster does not have.
UrlCandidates(cluster) ==
  << IF Len(cluster.articles) > 0
       THEN cluster.articles[1].link ELSE None,
     GetOrNone(cluster.quote_source_url),
     IF Len(cluster.perspectives) > 0
          /\ Len(cluster.perspectives[1].sources) > 0
       THEN cluster.perspectives[1].sources[1].url ELSE None,
     IF Len(cluster.primary_image) > 0
       THEN cluster.primary_image[1].link ELSE None >>

\* The positions of the candidates that exist and are not empty.
Available(cluster) ==
  { i \in 1..4 : Truthy(UrlCandidates(cluster)[i]) }

\* C18: get_primary_source_url returns the first available of the first
\* article's link, the quote source URL, the first perspective's first
\* source URL and the image link, and when there is none "hash:" followed
\* by the 32 hex digits of the cluster's digest.
C18_PrimaryUrlFirstAvailable ==
  ret_story # <<>> =>
    IF Available(arg_cluster) # {}
      THEN \E i \in Available(arg_cluster) :
             /\ \A j \in Available(arg_cluster) : i <= j
             /\ ret_story[1].url = UrlCandidates(arg_cluster)[i]
      ELSE /\ ret_story[1].url = "hash:" \o Md5Hex(arg_cluster)
           /\ Len(ret_story[1].url) = 5 + 32

\* The perspective source was returned for a cluster that has an article
\* without link, no quote source, and an image link.
C18_Witness ==
  /\ ret_story # <<>>
  /\ Len(arg_cluster.articles) > 0
  /\ Available(arg_cluster) = { 3, 4 }
  /\ ret_story[1].url = PerspUrl

\* The effective top_n of a category: its entry in top_n_by_category when
\* there is one, else top_n.
EffectiveTopN(cfg, name) ==
  IF \E c \in DOMAIN cfg.top_n_by_category : c = name
    THEN cfg.top_n_by_category[name]
    ELSE cfg.top_n

\* C19: a category whose effective top_n is 0 or negative contributes all
\* its stories, in their order; one whose effective top_n is positive
\* contributes at most top_n stories; what it contributes is the end of the
\* list given to the filter.
C19_EffectiveTopN ==
  (SelectionRan /\ exception # "TypeError: sort") =>
    /\ EffectiveTopN(config, category_name) <= 0 =>
         category_stories = Converted
    /\ EffectiveTopN(config, category_name) > 0 =>
         Len(category_stories) <= EffectiveTopN(config, category_name)
    /\ Len(all_stories) >= Len(category_stories)
    /\ SubSeq(all_stories, Len(all_stories) - Len(category_stories) + 1,
              Len(all_stories)) = category_stories

\* The entry of the category is negative and top_n positive: the three
\* stories of the category were all kept.
C19_Witness ==
  /\ SelectionRan
  /\ config.top_n = 1
  /\ EffectiveTopN(config, category_name) < 0
  /\ Len(Converted) = 3
  /\ category_stories = Converted
  /\ all_stories = category_stories
  /\ exception = None

(***************************************************************************)
(* Properties of the lookup of merge_duplicates.                           *)
(***************************************************************************)

\* The positions, in the key order of story, of the keys the URL map holds.
MatchingKeys(story) ==
  { i \in 1..Len(article_urls(story)) :
      Normalize(article_urls(story)[i]) \in DOMAIN seen_urls }

\* The canonical stories the keys of story lead to.
MatchedStories(story) ==
  { seen_urls[Normalize(article_urls(story)[i])] : i \in MatchingKeys(story) }

\* C20: a story whose keys match entries of two different canonical stories
\* is merged into the one its earliest matching key leads to (its article
\* links in list order), it is not appended to the output, and every other
\* story of the output is left unchanged.
C20_MergedIntoEarliestMatch ==
  [][ Len(stories') = Len(stories) + 1 =>
        LET S == stories'[Len(stories')]
            first == CHOOSE i \in MatchingKeys(S) :
                       \A j \in MatchingKeys(S) : i <= j
            E == seen_urls[Normalize(article_urls(S)[first])]
        IN  Cardinality(MatchedStories(S)) >= 2 =>
              /\ Len(merged') = Len(merged)
              /\ origin'[Len(origin')] = E
              /\ S.source_urls \subseteq merged'[E].source_urls
              /\ \A i \in 1..Len(S.articles) :
                   \E j \in 1..Len(merged'[E].articles) :
                     merged'[E].articles[j].link = S.articles[i].link
              /\ \A k \in 1..Len(merged) : k # E => merged'[k] = merged[k]
    ]_vars

\* The third story, with the links b and a in this order, was merged into
\* the second story (link b), and the first (link a) is as it was given.
C20_Witness ==
  /\ Len(stories) = 3
  /\ Len(merged) = 2
  /\ LinksOf(stories[1].articles) = { LinkA }
  /\ LinksOf(stories[2].articles) = { LinkB }
  /\ Len(stories[3].articles) = 2
  /\ stories[3].articles[1].link = LinkB
  /\ stories[3].articles[2].link = LinkA
  /\ origin = << 1, 2, 2 >>
  /\ merged[1] = stories[1]

(***************************************************************************)
(* Properties of the output list of merge_duplicates.                      *)
(***************************************************************************)

\* The position in the input of the first story that went into merged[k].
FirstSeen(k) == CHOOSE i \in Constituents(k) : \A j \in Constituents(k) : i <= j

\* The input stories classified as duplicates: an earlier story went into
\* the same output story.
Duplicates ==
  { i \in 1..Len(stories) : \E j \in 1..(i - 1) : origin[j] = origin[i] }

\* C21: the output consists of the stories classified as new, in their input
\* order: every output story has a first-seen input story, whose url it
\* keeps and which it equals while nothing was merged into it, these come in
\* the order of the input, and the output is as long as the input without
\* its duplicates.
C21_OutputIsNewStoriesInOrder ==
  /\ Len(merged) = Len(stories) - Cardinality(Duplicates)
  /\ \A k \in 1..Len(merged) :
       /\ Constituents(k) # {}
       /\ merged[k].url = stories[FirstSeen(k)].url
       /\ Constituents(k) = { FirstSeen(k) } => merged[k] = stories[FirstSeen(k)]
  /\ \A k, l \in 1..Len(merged) : k < l => FirstSeen(k) < FirstSeen(l)

\* Three stories were read: the second is new, the third a duplicate of the
\* first with another url, and the output holds the first and the second.
C21_Witness ==
  /\ Len(stories) = 3
  /\ origin = << 1, 2, 1 >>
  /\ Len(merged) = 2
  /\ stories[3].url # stories[1].url
  /\ merged[2] = stories[2]

(***************************************************************************)
(* Properties of the field merge.  A merge step is a step of the loop that *)
(* classifies its story as a duplicate: the output keeps its length.       *)
(***************************************************************************)
MergeStep ==
  /\ Len(stories') = Len(stories) + 1
  /\ Len(merged') = Len(merged)

\* In a merge step: the duplicate, and the canonical story before and after.
MergedStory == stories'[Len(stories')]
CanonicalBefore == merged[origin'[Len(origin')]]
CanonicalAfter == merged'[origin'[Len(origin')]]

\* First-non-empty-wins for a field whose empty values are those of empty.
FirstNonEmptyWins(before, new, after, empty) ==
  /\ before \notin empty => after = before
  /\ (before \in empty /\ new \notin empty) => after = new

\* C22: in every merge the fields other than url, source_urls, articles,
\* feed_category and item_category follow first-non-empty-wins: a non-empty
\* scalar value of the canonical story stays whatever the duplicate carries
\* and the merge completes; an empty one is replaced by the duplicate's
\* non-empty value.
C22_FirstNonEmptyWins ==
  [][ MergeStep =>
        /\ \A f \in { "title", "summary", "category", "published" } :
             FirstNonEmptyWins(CanonicalBefore[f], MergedStory[f],
                               CanonicalAfter[f], { None, Absent, "" })
        /\ FirstNonEmptyWins(CanonicalBefore.cluster_number,
                             MergedStory.cluster_number,
                             CanonicalAfter.cluster_number, { <<>> })
        /\ FirstNonEmptyWins(CanonicalBefore.primary_image,
                             MergedStory.primary_image,
                             CanonicalAfter.primary_image, { <<>> })
        /\ (CanonicalBefore.did_you_know.kind = "str"
              /\ TruthyValue(CanonicalBefore.did_you_know)) =>
             /\ CanonicalAfter.did_you_know = CanonicalBefore.did_you_know
             /\ exception' = None
    ]_vars

\* C23: when the canonical story and the duplicate both hold a non-empty
\* list, the merged list holds exactly the distinct elements of both, each
\* once, if the elements are hashable (talking_points), and the elements of
\* the canonical story followed by those of the duplicate if they are
\* records (perspectives).
C23_ListsUnited ==
  [][ MergeStep =>
        /\ (CanonicalBefore.talking_points # <<>>
              /\ MergedStory.talking_points # <<>>) =>
             /\ Range(CanonicalAfter.talking_points) =
                  Range(CanonicalBefore.talking_points)
                    \cup Range(MergedStory.talking_points)
             /\ Len(CanonicalAfter.talking_points) =
                  Cardinality(Range(CanonicalAfter.talking_points))
        /\ (CanonicalBefore.perspectives # <<>>
              /\ MergedStory.perspectives # <<>>) =>
             CanonicalAfter.perspectives =
               CanonicalBefore.perspectives \o MergedStory.perspectives
    ]_vars

\* Two stories with the same perspective were merged and the perspective is
\* held twice; a third story, with talking points, was merged as well.
C23_Witness ==
  /\ Len(stories) = 3
  /\ Len(merged) = 1
  /\ stories[1].perspectives # <<>>
  /\ stories[2].perspectives = stories[1].perspectives
  /\ merged[1].perspectives = stories[1].perspectives \o stories[2].perspectives
  /\ stories[3].talking_points # <<>>

(***************************************************************************)
(* Properties of the requests of process_kite_feeds.                       *)
(***************************************************************************)

\* The number of requests of a document in a log.
RequestCount(url, log) == Cardinality({ i \in 1..Len(log) : log[i] = url })

\* C24: in a run of process_kite_feeds the index is requested exactly once
\* and the document of each configured category at most once; a step sends
\* at most one request; the iteration whose request failed moves on to the
\* next category; and nothing is requested once the merge stage has started
\* or the run has ended.
C24_EachDocumentRequestedOnce ==
  [][ /\ RequestCount("kite.json", requests') = 1
      /\ \A i \in 1..Len(config.categories) :
           RequestCount(FileOf(config.categories[i]), requests') <= 1
      /\ Len(requests') <= Len(requests) + 1
      /\ (pc = "categories" /\ requests' # requests /\ ~category_data'.fetched)
           => position' = position + 1
      /\ pc \in { "merge", "done", "raised" } => requests' = requests
    ]_vars

\* The run ended after the request of the second category failed: the index
\* and both documents were requested once each.
C24_Witness ==
  /\ pc = "done"
  /\ requests = << "kite.json", "tech.json", "world.json" >>
  /\ ~category_data.fetched
  /\ Len(merged) >= 1

(***************************************************************************)
(* Properties of the order of the workflow steps.                          *)
(***************************************************************************)

\* The files the run tried to write.
Attempted == DOMAIN files \cup failed_writes

\* C25: the steps run in order and each is gated on the one before: nothing
\* is written before process_kite_feeds returned, feed.xml is written only
\* after processed_stories.json was written, story pages and index.html
\* only after feed.xml was written, and when the write of one of these two
\* fails the run exits with status 1 and writes nothing more.
C25_StepsGated ==
  /\ Attempted # {} => pc = "done"
  /\ "feed.xml" \in Attempted => "processed_stories.json" \in DOMAIN files
  /\ Attempted \ { "processed_stories.json", "feed.xml" } # {} =>
       "feed.xml" \in DOMAIN files
  /\ "processed_stories.json" \in failed_writes =>
       /\ exit_status = << 1 >>
       /\ Attempted = { "processed_stories.json" }
  /\ "feed.xml" \in failed_writes =>
       /\ exit_status = << 1 >>
       /\ Attempted = { "processed_stories.json", "feed.xml" }

\* The write of feed.xml failed in a run with two stories: the run exited
\* with status 1 and only processed_stories.json was written.
C25_Witness ==
  /\ step = "exited"
  /\ exit_status = << 1 >>
  /\ failed_writes = { "feed.xml" }
  /\ DOMAIN files = { "processed_stories.json" }
  /\ Len(LoadedStories) = 2


\* C26: the story page URLs returned by process_stories_for_output are
\* pairwise distinct, for every list of stories.
C26_StoryUrlsDistinct ==
  \A i, j \in 1..Len(story_html_urls) :
    i # j => story_html_urls[i] # story_html_urls[j]

\* C29: the story page URL generate_index_html (and generate_rss) computes
\* for a story names the file main writes for that story.
C29_IndexLinkNamesStoryPage ==
  \A i \in 1..Len(index_urls) :
    index_urls[i] = BaseUrl \o "/" \o StoryPage(out_stories[i])

\* C27: a merge changes nothing but the canonical story: its url stays, every
\* other story of the output keeps all its fields, and no entry of the URL
\* map is removed or pointed to another story (in any step of the loop).
C27_MergeChangesOnlyCanonical ==
  [][ /\ MergeStep =>
           /\ CanonicalAfter.url = CanonicalBefore.url
           /\ \A k \in 1..Len(merged) :
                k # origin'[Len(origin')] => merged'[k] = merged[k]
      /\ \A key \in DOMAIN seen_urls :
           key \in DOMAIN seen_urls' /\ seen_urls'[key] = seen_urls[key]
    ]_vars

\* A duplicate with another url was merged into the first story, which it
\* changed, while a second story was in the output.
C27_Witness ==
  /\ Len(stories) = 3
  /\ origin = << 1, 2, 1 >>
  /\ exception = None
  /\ stories[3].url # stories[1].url
  /\ merged[1] # stories[1]
  /\ merged[1].url = stories[1].url
  /\ \A key \in DOMAIN seen_urls : seen_urls[key] \in { 1, 2 }

\* C28: the story cluster_to_story returns has its url among its
\* source_urls whenever these are not empty, and a "hash:" url only when
\* they are empty.
C28_UrlAmongSourceUrls ==
  ret_story # <<>> =>
    /\ ret_story[1].source_urls # {} =>
         ret_story[1].url \in ret_story[1].source_urls
    /\ StartsWithHash(ret_story[1].url) => ret_story[1].source_urls = {}

\* C30: the article loop of a merge terminates: every iteration leaves fewer
\* elements of story["articles"] to visit, so the loop ends after as many
\* iterations as the list had elements, also when the story is the existing
\* record itself and has an article without a link.
C30_ArticleLoopTerminates ==
  [][ ( /\ article_position # <<>> /\ article_position[1] > 0
         /\ article_position' # <<>> ) =>
        Len(article_lists'[story_articles]) - article_position'[1]
          < Len(article_lists[story_articles]) - article_position[1]
    ]_vars

=============================================================================
